---- MODULE Spec2Model ----
(***************************************************************************)
(* The Kafka channel dispatcher (package dispatcher, DispatcherImpl):      *)
(* UpdateSubscriptions, Shutdown, ConfigChanged, closeConsumerGroup and    *)
(* startConsuming, as a state machine.                                     *)
(*                                                                         *)
(* Spec     : one caller; every public operation is one atomic action.     *)
(* SpecConc : several caller threads; the operations advance statement by  *)
(*            statement and interleave as the Go scheduler allows.         *)
(* SpecLoop : one caller and the consumption loops startConsuming started, *)
(*            scheduled fairly.                                            *)
(* SpecDrain: SpecLoop's steps and those of the error draining goroutines. *)
(***************************************************************************)
EXTENDS Integers, Sequences, FiniteSets, TLC

\* ---------------------------------------------------------------- bounds
MaxLen == 2          \* longest desired sequence handed to UpdateSubscriptions
MaxHandles == 3      \* consumer groups the factory may hand out in one run
MaxDisp == 2         \* dispatcher instances constructed in one run
MaxCalls == 3        \* calls the threads of SpecConc begin in one run
MaxLoops == 2        \* consumer groups, each with its consumption loop, in one run of SpecLoop
MaxErrors == 1       \* errors waiting on a consumer group's Errors() channel

\* ---------------------------------------------------------------- values
Nil == "nil"

\* the nil reference (to a dispatcher, a wrapper, a consumer group)
NilRef == 0

UIDs == {"A", "B"}
Generations == {1, 2}

\* eventingduck.SubscriberSpec: the identity and the rest of the specification
\* (the callers of this model hand in A in two generations, B in one)
SubscriberSpec ==
  {s \in [UID : UIDs, Generation : Generations] : s.UID = "A" \/ s.Generation = 1}

Errors == {"E1", "E2"}
CreateOutcomes == {"ok"} \cup Errors

RECURSIVE SeqsUpTo(_, _)
SeqsUpTo(S, n) ==
  IF n = 0 THEN {<<>>}
  ELSE LET shorter == SeqsUpTo(S, n - 1)
       IN shorter \cup {Append(s, x) : s \in {t \in shorter : Len(t) = n - 1}, x \in S}

Range(f) == {f[x] : x \in DOMAIN f}

Perms(S) == {s \in [1..Cardinality(S) -> S] : Range(s) = S}

\* the empty map
EmptyMap == [x \in {} |-> Nil]

SpecMapPut(m, k, v) == [x \in DOMAIN m \cup {k} |-> IF x = k THEN v ELSE m[x]]

MapDelete(m, k) == [x \in DOMAIN m \ {k} |-> m[x]]

\* ---------------------------------------------------------------- sarama.Config
ClientIDs == {"id1", "id2"}
Users == {"u1", "u2"}
Passwords == {"p1", "p2"}
Settings == {"s1", "s2"}

SaramaConfigs == [ClientID : ClientIDs, User : Users, Password : Passwords,
                  Consumer : Settings, Producer : Settings]

\* a nil *sarama.Config
NoConfig ==
  [ClientID |-> Nil, User |-> Nil, Password |-> Nil, Consumer |-> Nil, Producer |-> Nil]

InitialSaramaConfig ==
  [ClientID |-> "id1", User |-> "u1", Password |-> "p1", Consumer |-> "s1", Producer |-> "s1"]

\* the sarama sections ConfigMaps come with: the initial settings, the initial
\* settings with one of the settings changed, and those with both the Consumer
\* section and the password changed
OverlayConfigs ==
  {c \in SaramaConfigs :
     LET changed == {f \in DOMAIN c : c[f] # InitialSaramaConfig[f]}
     IN Cardinality(changed) <= 1 \/ changed = {"Consumer", "Password"}}

\* a ConfigMap: either one whose sarama section cannot be parsed, or one that
\* parses to these settings
ConfigMaps == {[valid |-> FALSE, sarama |-> NoConfig]} \cup
              {[valid |-> TRUE, sarama |-> c] : c \in OverlayConfigs}

\* kafkasarama.MergeSaramaSettings(nil, configMap): the settings of the
\* ConfigMap laid over a blank configuration; an error for an unparsable one
MergeSaramaSettings(configMap) ==
  IF ~configMap.valid
  THEN [err |-> TRUE, config |-> NoConfig]
  ELSE [err |-> FALSE, config |-> configMap.sarama]

\* kafkasarama.UpdateSaramaConfig(config, clientId, username, password)
UpdateSaramaConfig(config, clientId, username, password) ==
  [config EXCEPT !.ClientID = clientId, !.User = username, !.Password = password]

\* kafkasarama.ConfigEqual(a, b, a.Producer): equality ignoring the Producer section
ConfigEqual(a, b) ==
  /\ a.ClientID = b.ClientID
  /\ a.User = b.User
  /\ a.Password = b.Password
  /\ a.Consumer = b.Consumer

\* ---------------------------------------------------------------- records
\* a group id that leaves the UID out
GroupIdOfPrefixOnly(uid) == "kafka."

\* fmt.Sprintf("kafka.%s", subscriberSpec.UID): the UID's text after the prefix
GroupIdOf(uid) == "kafka." \o uid

\* NewSubscriberWrapper: the spec, the group id, the consumer group, a fresh open StopChan
NewSubscriberWrapper(subscriberSpec, groupId, consumerGroup) ==
  [SubscriberSpec |-> subscriberSpec, GroupId |-> groupId,
   ConsumerGroup |-> consumerGroup, StopChan |-> "open"]

\* NewDispatcher: the configuration and an empty subscribers map
NewDispatcher(dispatcherConfig) ==
  [SaramaConfig |-> dispatcherConfig.SaramaConfig,
   SubscriberSpecs |-> dispatcherConfig.SubscriberSpecs,
   subscribers |-> EmptyMap]

\* the embedded DispatcherConfig of a dispatcher
DispatcherConfigOf(d) ==
  [SaramaConfig |-> d.SaramaConfig, SubscriberSpecs |-> d.SubscriberSpecs]

\* a consumer group as the factory hands it out: open, Close never called, no
\* consumption loop started on it yet
NewConsumerGroup == [closed |-> FALSE, closeCalls |-> 0, loops |-> 0]

\* ---------------------------------------------------------------- the heap
\* A world is what the statements of the dispatchers read and write:
\*   disp     the DispatcherImpl instances constructed so far, each with its
\*            SaramaConfig, SubscriberSpecs and subscribers (UID -> reference
\*            to a SubscriberWrapper)
\*   wrappers the SubscriberWrapper objects ever allocated, by reference
\*   groups   the consumer groups ever created, by reference
\*   crashed  "no", "panic" (a Go runtime panic) or "fatal" (Logger.Fatal)

\* startConsuming(subscriber): starts the error draining and the consumption
\* loop of the subscriber's consumer group, when it has one
startConsuming(w, ref) ==
  IF ref # NilRef /\ w.wrappers[ref].ConsumerGroup # NilRef
  THEN LET cg == w.wrappers[ref].ConsumerGroup
       IN [w EXCEPT !.groups[cg].loops = @ + 1]
  ELSE w

\* a closeConsumerGroup that never deletes the subscriber from the map
closeConsumerGroupNoDelete(w, di, ref, closeOk) ==
  LET subscriber == w.wrappers[ref]
      consumerGroup == subscriber.ConsumerGroup
  IN IF subscriber.StopChan = "closed"
     THEN [w EXCEPT !.crashed = "panic"]
     ELSE [w EXCEPT !.wrappers[ref].StopChan = "closed",
                    !.groups[consumerGroup].closeCalls = @ + 1,
                    !.groups[consumerGroup].closed = closeOk]

\* a closeConsumerGroup that deletes the subscriber whatever Close() answers
closeConsumerGroupAlwaysDelete(w, di, ref, closeOk) ==
  LET subscriber == w.wrappers[ref]
      consumerGroup == subscriber.ConsumerGroup
  IN IF subscriber.StopChan = "closed"
     THEN [w EXCEPT !.crashed = "panic"]
     ELSE [w EXCEPT !.wrappers[ref].StopChan = "closed",
                    !.groups[consumerGroup].closeCalls = @ + 1,
                    !.groups[consumerGroup].closed = closeOk,
                    !.disp[di].subscribers = MapDelete(@, subscriber.SubscriberSpec.UID)]

\* closeConsumerGroup(subscriber) of dispatcher di, with the outcome of
\* consumerGroup.Close() when it comes to be called
closeConsumerGroup(w, di, ref, closeOk) ==
  LET subscriber == w.wrappers[ref]
      consumerGroup == subscriber.ConsumerGroup
  IN IF consumerGroup # NilRef
     THEN IF subscriber.StopChan = "closed"
          THEN \* close of a closed channel panics
               [w EXCEPT !.crashed = "panic"]
          ELSE LET w1 == [w EXCEPT !.wrappers[ref].StopChan = "closed",
                                   !.groups[consumerGroup].closeCalls = @ + 1]
               IN IF ~closeOk
                  THEN w1
                  ELSE [w1 EXCEPT !.groups[consumerGroup].closed = TRUE,
                                  !.disp[di].subscribers =
                                      MapDelete(@, subscriber.SubscriberSpec.UID)]
     ELSE [w EXCEPT !.disp[di].subscribers = MapDelete(@, subscriber.SubscriberSpec.UID)]

\* The statements of closeConsumerGroup one by one, for a subscriber that has
\* a consumer group (every subscriber the dispatcher registers has one).

\* a teardown that leaves StopChan as it is
closeStopChanNoSignal(w, ref) == w

\* close(subscriber.StopChan)
closeStopChan(w, ref) ==
  IF w.wrappers[ref].StopChan = "closed"
  THEN [w EXCEPT !.crashed = "panic"]
  ELSE [w EXCEPT !.wrappers[ref].StopChan = "closed"]

\* subscriber.ConsumerGroup.Close() is called
invokeClose(w, ref) ==
  [w EXCEPT !.groups[w.wrappers[ref].ConsumerGroup].closeCalls = @ + 1]

\* a teardown that deletes the subscriber whatever Close() returned
closeReturnedAlwaysDelete(w, di, ref, closeOk) ==
  [w EXCEPT !.groups[w.wrappers[ref].ConsumerGroup].closed = closeOk,
            !.disp[di].subscribers = MapDelete(@, w.wrappers[ref].SubscriberSpec.UID)]

\* Close() has returned: on an error the subscriber stays in the map, otherwise
\* it is deleted
closeReturned(w, di, ref, closeOk) ==
  IF ~closeOk
  THEN w
  ELSE [w EXCEPT !.groups[w.wrappers[ref].ConsumerGroup].closed = TRUE,
                 !.disp[di].subscribers = MapDelete(@, w.wrappers[ref].SubscriberSpec.UID)]

\* ---------------------------------------------------------------- Shutdown
\* a Shutdown that forgets the specification of each subscriber it closes
ShutdownEntryDroppingSpec(w, di, uid, closeOk) ==
  LET ref == w.disp[di].subscribers[uid]
      w1 == closeConsumerGroup(w, di, ref, closeOk)
      kept == {i \in DOMAIN w.disp[di].SubscriberSpecs :
                 w.disp[di].SubscriberSpecs[i].UID # uid}
  IN IF kept = DOMAIN w.disp[di].SubscriberSpecs
     THEN w1
     ELSE [w1 EXCEPT !.disp[di].SubscriberSpecs = <<>>]

\* the body of Shutdown's range loop for one subscriber; ls is the world and
\* what the call has done so far
ShutdownEntry(w, di, uid, closeOk) ==
  closeConsumerGroup(w, di, w.disp[di].subscribers[uid], closeOk)

\* Shutdown's range over d.subscribers, visiting the map in the order `order`
\* (Go leaves the order open); a panic ends it
RECURSIVE ShutdownFrom(_, _, _, _, _)
ShutdownFrom(w, di, order, i, closeOk) ==
  IF i > Len(order) \/ w.crashed # "no"
  THEN w
  ELSE LET uid == order[i]
       IN IF uid \in DOMAIN w.disp[di].subscribers
          THEN ShutdownFrom(ShutdownEntry(w, di, uid, closeOk[uid]), di, order, i + 1, closeOk)
          ELSE ShutdownFrom(w, di, order, i + 1, closeOk)

Shutdown(w, di, order, closeOk) == ShutdownFrom(w, di, order, 1, closeOk)

\* ---------------------------------------------------------------- UpdateSubscriptions
\* The locals of a running UpdateSubscriptions, with the world:
\*   active  activeSubscriptions, the UIDs marked active
\*   failed  failedSubscriptions, SubscriberSpec -> error
\*   calls   calls made to consumer.CreateConsumerGroup

\* a loop body that creates a consumer group for every entry, registered or not
UpdateEntryAlwaysCreate(ls, di, subscriberSpec, outcome) ==
  LET w == ls.w
      uid == subscriberSpec.UID
  IN IF outcome # "ok"
     THEN [ls EXCEPT !.failed = SpecMapPut(@, subscriberSpec, outcome), !.calls = @ + 1]
     ELSE LET ref == Len(w.wrappers) + 1
              w1 == [w EXCEPT !.groups = Append(@, NewConsumerGroup),
                              !.wrappers = Append(@,
                                  NewSubscriberWrapper(subscriberSpec, GroupIdOf(uid), ref))]
              w2 == startConsuming(w1, ref)
              w3 == [w2 EXCEPT !.disp[di].subscribers = SpecMapPut(@, uid, ref)]
          IN [ls EXCEPT !.w = w3, !.active = @ \cup {uid}, !.calls = @ + 1]

\* a loop body that stores the new specification of a registered entry in
\* the wrapper it has
UpdateEntryReplacingChanged(ls, di, subscriberSpec, outcome) ==
  LET w == ls.w
      uid == subscriberSpec.UID
  IN IF uid \notin DOMAIN w.disp[di].subscribers
     THEN UpdateEntryAlwaysCreate(ls, di, subscriberSpec, outcome)
     ELSE [ls EXCEPT !.active = @ \cup {uid},
                     !.w.wrappers[w.disp[di].subscribers[uid]].SubscriberSpec = subscriberSpec]

\* a loop body that asks the factory a second time when it fails
UpdateEntryRetrying(ls, di, subscriberSpec, outcome) ==
  LET w == ls.w
      uid == subscriberSpec.UID
  IN IF uid \notin DOMAIN w.disp[di].subscribers
     THEN LET r == UpdateEntryAlwaysCreate(ls, di, subscriberSpec, outcome)
          IN IF outcome # "ok" THEN [r EXCEPT !.calls = @ + 1] ELSE r
     ELSE [ls EXCEPT !.active = @ \cup {uid}]

\* the body of the loop over subscriberSpecs for one entry; outcome is what
\* consumer.CreateConsumerGroup answers if it is called
UpdateEntry(ls, di, subscriberSpec, outcome) ==
  LET w == ls.w
      uid == subscriberSpec.UID
  IN IF uid \notin DOMAIN w.disp[di].subscribers
     THEN IF outcome # "ok"
          THEN [ls EXCEPT !.failed = SpecMapPut(@, subscriberSpec, outcome),
                          !.calls = @ + 1]
          ELSE LET ref == Len(w.wrappers) + 1
                   w1 == [w EXCEPT !.groups = Append(@, NewConsumerGroup),
                                   !.wrappers = Append(@,
                                       NewSubscriberWrapper(subscriberSpec, GroupIdOf(uid), ref))]
                   w2 == startConsuming(w1, ref)
                   w3 == [w2 EXCEPT !.disp[di].subscribers = SpecMapPut(@, uid, ref)]
               IN [ls EXCEPT !.w = w3, !.active = @ \cup {uid}, !.calls = @ + 1]
     ELSE [ls EXCEPT !.active = @ \cup {uid}]

\* a loop over subscriberSpecs that gives up at the first failed creation
RECURSIVE UpdateLoopStopAtFailure(_, _, _, _, _)
UpdateLoopStopAtFailure(ls, di, subscriberSpecs, i, outcomes) ==
  IF i > Len(subscriberSpecs) \/ DOMAIN ls.failed # {}
  THEN ls
  ELSE UpdateLoopStopAtFailure(UpdateEntry(ls, di, subscriberSpecs[i], outcomes[i]),
                               di, subscriberSpecs, i + 1, outcomes)

RECURSIVE UpdateLoop(_, _, _, _, _)
UpdateLoop(ls, di, subscriberSpecs, i, outcomes) ==
  IF i > Len(subscriberSpecs)
  THEN ls
  ELSE UpdateLoop(UpdateEntry(ls, di, subscriberSpecs[i], outcomes[i]),
                  di, subscriberSpecs, i + 1, outcomes)

\* a sweep that keeps the specification of the subscribers it closes too
SweepEntryRetainingSwept(ls, di, uid, closeOk) ==
  LET ref == ls.w.disp[di].subscribers[uid]
      kept == [ls EXCEPT !.w.disp[di].SubscriberSpecs =
                            Append(@, ls.w.wrappers[ref].SubscriberSpec)]
  IN IF uid \notin ls.active
     THEN [kept EXCEPT !.w = closeConsumerGroup(kept.w, di, ref, closeOk)]
     ELSE kept

\* the body of the sweep over d.subscribers for one subscriber
SweepEntry(ls, di, uid, closeOk) ==
  LET ref == ls.w.disp[di].subscribers[uid]
  IN IF uid \notin ls.active
     THEN [ls EXCEPT !.w = closeConsumerGroup(ls.w, di, ref, closeOk)]
     ELSE [ls EXCEPT !.w.disp[di].SubscriberSpecs =
                        Append(@, ls.w.wrappers[ref].SubscriberSpec)]

RECURSIVE SweepFrom(_, _, _, _, _)
SweepFrom(ls, di, order, i, closeOk) ==
  IF i > Len(order) \/ ls.w.crashed # "no"
  THEN ls
  ELSE LET uid == order[i]
       IN IF uid \in DOMAIN ls.w.disp[di].subscribers
          THEN SweepFrom(SweepEntry(ls, di, uid, closeOk[uid]), di, order, i + 1, closeOk)
          ELSE SweepFrom(ls, di, order, i + 1, closeOk)

\* what a call hands back: the failure map, or nothing at all (a nil map)
NilMap == [isNil |-> TRUE, m |-> EmptyMap]
MapResult(m) == [isNil |-> FALSE, m |-> m]

\* an UpdateSubscriptions that does not look whether the dispatcher has a
\* configuration
UpdateSubscriptionsWithoutConfigCheck(w, di, subscriberSpecs, outcomes, order, closeOk) ==
  LET ls0 == [w |-> w, active |-> {}, failed |-> EmptyMap, calls |-> 0]
      ls1 == UpdateLoop(ls0, di, subscriberSpecs, 1, outcomes)
      ls2 == [ls1 EXCEPT !.w.disp[di].SubscriberSpecs = <<>>]
      ls3 == SweepFrom(ls2, di, order, 1, closeOk)
  IN [w |-> ls3.w, ret |-> MapResult(ls3.failed), calls |-> ls3.calls, locked |-> TRUE]

\* UpdateSubscriptions(subscriberSpecs) on dispatcher di: the result is the
\* world after it, what it returned, the factory calls made and whether it
\* took consumerUpdateLock
UpdateSubscriptions(w, di, subscriberSpecs, outcomes, order, closeOk) ==
  IF w.disp[di].SaramaConfig = NoConfig
  THEN [w |-> w, ret |-> NilMap, calls |-> 0, locked |-> FALSE]
  ELSE LET ls0 == [w |-> w, active |-> {}, failed |-> EmptyMap, calls |-> 0]
           ls1 == UpdateLoop(ls0, di, subscriberSpecs, 1, outcomes)
           ls2 == [ls1 EXCEPT !.w.disp[di].SubscriberSpecs = <<>>]
           ls3 == SweepFrom(ls2, di, order, 1, closeOk)
       IN [w |-> ls3.w, ret |-> MapResult(ls3.failed), calls |-> ls3.calls,
           locked |-> TRUE]

\* ---------------------------------------------------------------- ConfigChanged
\* a ConfigChanged that lets the ConfigMap's password stand
NewConfigOfOverlayPassword(d, configMap) ==
  LET merged == MergeSaramaSettings(configMap)
  IN IF d.SaramaConfig # NoConfig
     THEN UpdateSaramaConfig(merged.config, d.SaramaConfig.ClientID,
                             d.SaramaConfig.User, merged.config.Password)
     ELSE merged.config

\* a ConfigChanged that lets the ConfigMap's client id stand
NewConfigOfOverlayClientId(d, configMap) ==
  LET merged == MergeSaramaSettings(configMap)
  IN IF d.SaramaConfig # NoConfig
     THEN UpdateSaramaConfig(merged.config, merged.config.ClientID,
                             d.SaramaConfig.User, d.SaramaConfig.Password)
     ELSE merged.config

\* the configuration ConfigChanged builds from the ConfigMap: the merged
\* settings, with the client id, user and password of the dispatcher's present
\* configuration when it has one
NewConfigOf(d, configMap) ==
  LET merged == MergeSaramaSettings(configMap)
  IN IF d.SaramaConfig # NoConfig
     THEN UpdateSaramaConfig(merged.config, d.SaramaConfig.ClientID,
                             d.SaramaConfig.User, d.SaramaConfig.Password)
     ELSE merged.config

\* a ConfigChanged that goes on although the ConfigMap did not merge
RecreatesDespiteMergeError(d, configMap) ==
  ~(d.SaramaConfig # NoConfig /\ ConfigEqual(NewConfigOf(d, configMap), d.SaramaConfig))

\* a ConfigChanged that recreates the dispatcher on any difference, the
\* Producer section included
RecreatesOnAnyChange(d, configMap) ==
  /\ ~MergeSaramaSettings(configMap).err
  /\ NewConfigOf(d, configMap) # d.SaramaConfig

\* whether ConfigChanged goes on to recreate the dispatcher: the ConfigMap
\* merges, and the dispatcher has no configuration or one that differs from
\* the new one outside the Producer section
Recreates(d, configMap) ==
  /\ ~MergeSaramaSettings(configMap).err
  /\ ~(d.SaramaConfig # NoConfig /\ ConfigEqual(NewConfigOf(d, configMap), d.SaramaConfig))

\* a ConfigChanged that returns the new dispatcher whatever its
\* UpdateSubscriptions reported
ConfigChangedIgnoringFailures(w, di, configMap, order, closeOk, outcomes, order2) ==
  IF ~Recreates(w.disp[di], configMap)
  THEN [w |-> w, ret |-> NilRef, rebuilt |-> FALSE]
  ELSE LET newConfig == NewConfigOf(w.disp[di], configMap)
           w1 == Shutdown(w, di, order, closeOk)
           w2 == [w1 EXCEPT !.disp[di].SaramaConfig = newConfig]
           w3 == [w2 EXCEPT !.disp = Append(@, NewDispatcher(DispatcherConfigOf(w2.disp[di])))]
           ndi == Len(w3.disp)
           r == UpdateSubscriptions(w3, ndi, w3.disp[di].SubscriberSpecs,
                                    outcomes, order2, [u \in UIDs |-> TRUE])
       IN IF w1.crashed # "no"
          THEN [w |-> w1, ret |-> NilRef, rebuilt |-> FALSE]
          ELSE [w |-> r.w, ret |-> ndi, rebuilt |-> TRUE]

\* ConfigChanged(configMap) on dispatcher di: the world after it and the
\* dispatcher it returned (a reference, or NilRef). order/closeOk steer its
\* Shutdown, outcomes/order2 the UpdateSubscriptions of the new dispatcher.
ConfigChanged(w, di, configMap, order, closeOk, outcomes, order2) ==
  IF ~Recreates(w.disp[di], configMap)
  THEN [w |-> w, ret |-> NilRef, rebuilt |-> FALSE]
  ELSE LET newConfig == NewConfigOf(w.disp[di], configMap)
           w1 == Shutdown(w, di, order, closeOk)
           w2 == [w1 EXCEPT !.disp[di].SaramaConfig = newConfig]
           w3 == [w2 EXCEPT !.disp = Append(@, NewDispatcher(DispatcherConfigOf(w2.disp[di])))]
           ndi == Len(w3.disp)
           r == UpdateSubscriptions(w3, ndi, w3.disp[di].SubscriberSpecs,
                                    outcomes, order2, [u \in UIDs |-> TRUE])
       IN IF w1.crashed # "no"
          THEN [w |-> w1, ret |-> NilRef, rebuilt |-> FALSE]
          ELSE IF r.w.crashed # "no"
          THEN [w |-> r.w, ret |-> NilRef, rebuilt |-> TRUE]
          ELSE IF Cardinality(DOMAIN r.ret.m) > 0
          THEN [w |-> [r.w EXCEPT !.crashed = "fatal"], ret |-> NilRef, rebuilt |-> TRUE]
          ELSE [w |-> r.w, ret |-> ndi, rebuilt |-> TRUE]

\* ---------------------------------------------------------------- state
VARIABLES
  disp,      \* the dispatcher instances constructed so far
  wrappers,  \* the SubscriberWrapper objects, by reference
  groups,    \* the consumer groups, by reference
  crashed,   \* "no", "panic" or "fatal"
  current,   \* the dispatcher the caller uses: the last one a call returned
  last,      \* the observed call: its arguments, the world before it, its result
  lock,      \* consumerUpdateLock of each dispatcher: the thread holding it, or NoThread
  th,        \* the caller threads: where each is in the operation it runs, and its locals
  begun      \* the calls the threads have begun

vars == <<disp, wrappers, groups, crashed, current, last, lock, th, begun>>

Threads == {1, 2}

\* an unlocked sync.Mutex
NoThread == 0

\* a thread between two calls
IdleThread ==
  [pc |-> "idle", op |-> "none", di |-> NilRef, specs |-> <<>>, i |-> 0, active |-> {},
   failed |-> EmptyMap, pending |-> {}, seen |-> {}, newConfig |-> NoConfig]

World == [disp |-> disp, wrappers |-> wrappers, groups |-> groups, crashed |-> crashed]

NoCall == [op |-> "none"]

DesiredUIDs(subscriberSpecs) == {subscriberSpecs[i].UID : i \in DOMAIN subscriberSpecs}

Registered(di) == DOMAIN disp[di].subscribers

\* the dispatcher main() starts with: NewDispatcher of a configuration with or
\* without a sarama.Config, no subscriber yet
Init ==
  /\ \E cfg \in {InitialSaramaConfig, NoConfig} :
       disp = <<NewDispatcher([SaramaConfig |-> cfg, SubscriberSpecs |-> <<>>])>>
  /\ wrappers = <<>>
  /\ groups = <<>>
  /\ crashed = "no"
  /\ current = 1
  /\ last = NoCall
  /\ lock = <<NoThread>>
  /\ th = [t \in Threads |-> IdleThread]
  /\ begun = 0

Install(w) ==
  /\ disp' = w.disp
  /\ wrappers' = w.wrappers
  /\ groups' = w.groups
  /\ crashed' = w.crashed
  /\ lock' = [di \in DOMAIN w.disp |-> IF di \in DOMAIN lock THEN lock[di] ELSE NoThread]

\* the outcomes of Close() for the subscribers in S; it is asked of no other
CloseOutcomes(S) == {[u \in UIDs |-> IF u \in S THEN f[u] ELSE TRUE] : f \in [S -> BOOLEAN]}

\* the answers of consumer.CreateConsumerGroup, by position of the desired
\* sequence; it is not asked about a UID that is registered already
FactoryOutcomes(subscriberSpecs, registered) ==
  {o \in [1..Len(subscriberSpecs) -> CreateOutcomes] :
     \A i \in 1..Len(subscriberSpecs) : subscriberSpecs[i].UID \in registered => o[i] = "ok"}

\* the orders a range over the subscribers map may take
Orders == Perms(UIDs)

\* One call of a run is observed: `last` keeps its arguments, the world it
\* started from and its result, and the properties of single calls are stated
\* on it. The run is not followed beyond the observed call: the worlds after
\* it are those after the same call unobserved.
Observing == last.op = "none"

\* the caller invokes UpdateSubscriptions on the dispatcher in use
CallUpdateSubscriptions ==
  /\ crashed = "no"
  /\ Observing
  /\ \E subscriberSpecs \in SeqsUpTo(SubscriberSpec, MaxLen), order \in Orders,
        observe \in BOOLEAN :
       \E outcomes \in FactoryOutcomes(subscriberSpecs, Registered(current)),
          closeOk \in CloseOutcomes(Registered(current) \ DesiredUIDs(subscriberSpecs)) :
         LET r == UpdateSubscriptions(World, current, subscriberSpecs, outcomes, order, closeOk)
         IN /\ Len(r.w.groups) <= MaxHandles
            /\ Install(r.w)
            /\ last' = IF observe
                       THEN [op |-> "UpdateSubscriptions", di |-> current, pre |-> World,
                             desired |-> subscriberSpecs, outcomes |-> outcomes,
                             closeOk |-> closeOk,
                             ret |-> r.ret, calls |-> r.calls, locked |-> r.locked,
                             returned |-> (r.w.crashed = "no")]
                       ELSE NoCall
            /\ UNCHANGED <<current, th, begun>>

\* the caller invokes Shutdown on the dispatcher in use
CallShutdown ==
  /\ crashed = "no"
  /\ Observing
  /\ \E order \in Orders, closeOk \in CloseOutcomes(Registered(current)),
        observe \in BOOLEAN :
       LET w == Shutdown(World, current, order, closeOk)
       IN /\ Install(w)
          /\ last' = IF observe
                     THEN [op |-> "Shutdown", di |-> current, pre |-> World,
                           closeOk |-> closeOk,
                           returned |-> (w.crashed = "no")]
                     ELSE NoCall
          /\ UNCHANGED <<current, th, begun>>

\* the caller invokes ConfigChanged on the dispatcher in use and goes on with
\* the dispatcher it returns, if it returns one
CallConfigChanged ==
  /\ crashed = "no"
  /\ Observing
  /\ \E configMap \in ConfigMaps, observe \in BOOLEAN :
       LET recreates == Recreates(disp[current], configMap)
       IN \E order \in IF recreates THEN Orders ELSE {CHOOSE o \in Orders : TRUE},
             closeOk \in CloseOutcomes(IF recreates THEN Registered(current) ELSE {}),
             outcomes \in IF recreates
                          THEN [1..Len(disp[current].SubscriberSpecs) -> CreateOutcomes]
                          ELSE {<<>>},
             order2 \in IF recreates THEN Orders ELSE {CHOOSE o \in Orders : TRUE} :
            LET r == ConfigChanged(World, current, configMap, order, closeOk, outcomes, order2)
            IN /\ Len(r.w.groups) <= MaxHandles
               /\ Len(r.w.disp) <= MaxDisp
               /\ Install(r.w)
               /\ current' = IF r.ret # NilRef THEN r.ret ELSE current
               /\ last' = IF observe
                          THEN [op |-> "ConfigChanged", di |-> current, pre |-> World,
                                configMap |-> configMap, closeOk |-> closeOk,
                                outcomes |-> outcomes, ret |-> r.ret, rebuilt |-> r.rebuilt,
                                returned |-> (r.w.crashed = "no")]
                          ELSE NoCall
               /\ UNCHANGED <<th, begun>>

Next ==
  \/ CallUpdateSubscriptions
  \/ CallShutdown
  \/ CallConfigChanged

Spec == Init /\ [][Next]_vars

\* ---------------------------------------------------------------- threads
\* The same operations, statement by statement, run by caller threads that
\* the scheduler interleaves. A thread's record keeps its position (pc), the
\* call it runs (op), the dispatcher it runs on (di) and the call's locals.

Set(t, rec) == th' = [th EXCEPT ![t] = rec]

\* the locals of thread t as the loop bodies take them, and back
LocalsOf(t) == [w |-> World, active |-> th[t].active, failed |-> th[t].failed, calls |-> 0]

\* consumerUpdateLock.Lock() of dispatcher di succeeds for thread t
CanLockAlways(t, di) == TRUE

CanLock(t, di) == lock[di] = NoThread

\* the subscribers a range over the map of di may produce next for thread t:
\* those it has to visit still, and those put into the map since it started
MayVisit(t) ==
  (th[t].pending \cup (DOMAIN disp[th[t].di].subscribers \ th[t].seen))
     \cap DOMAIN disp[th[t].di].subscribers

\* the range is over: no subscriber it has to visit is left in the map
RangeMayEnd(t) == th[t].pending \cap DOMAIN disp[th[t].di].subscribers = {}

\* the specifications the threads hand in: one per identity
ThreadSpecs == {sp \in SubscriberSpec : sp.Generation = 1}

\* thread t is about to touch the subscribers map of its dispatcher while
\* another thread is in the middle of touching it and the two are not held
\* apart by the lock: one of them is in Shutdown, which takes no lock
Racing(t) ==
  \E u \in Threads \ {t} :
    /\ th[u].di = th[t].di
    /\ \/ th[u].pc = "shutdown"
       \/ th[t].pc = "shutdown" /\ th[u].pc \in {"loop", "sweep"}

\* what becomes of the run when thread t touches the map: as the statement has
\* it, or, in a race, possibly the Go runtime's fatal "concurrent map" throw
Outcome(t, c) == IF Racing(t) THEN {c, "throw"} ELSE {c}

\* UpdateSubscriptions is entered: without a sarama.Config it returns at once
BeginUpdateSubscriptions(t) ==
  /\ crashed = "no"
  /\ th[t].pc = "idle"
  /\ begun < MaxCalls
  /\ begun' = begun + 1
  /\ \E subscriberSpecs \in SeqsUpTo(ThreadSpecs, MaxLen) :
       IF disp[current].SaramaConfig = NoConfig
       THEN Set(t, IdleThread)
       ELSE Set(t, [IdleThread EXCEPT !.pc = "lock", !.op = "UpdateSubscriptions",
                                      !.di = current, !.specs = subscriberSpecs])
  /\ UNCHANGED <<disp, wrappers, groups, crashed, current, last, lock>>

\* d.consumerUpdateLock.Lock()
AcquireLock(t) ==
  /\ crashed = "no"
  /\ th[t].pc = "lock"
  /\ CanLock(t, th[t].di)
  /\ lock' = [lock EXCEPT ![th[t].di] = t]
  /\ Set(t, [th[t] EXCEPT !.pc = "loop", !.i = 1])
  /\ UNCHANGED <<disp, wrappers, groups, crashed, current, last, begun>>

\* one pass of the loop over subscriberSpecs
LoopStep(t) ==
  /\ crashed = "no"
  /\ th[t].pc = "loop"
  /\ th[t].i <= Len(th[t].specs)
  /\ \E outcome \in CreateOutcomes :
       LET ls == UpdateEntry(LocalsOf(t), th[t].di, th[t].specs[th[t].i], outcome)
       IN /\ Len(ls.w.groups) <= MaxHandles
          /\ disp' = ls.w.disp
          /\ wrappers' = ls.w.wrappers
          /\ groups' = ls.w.groups
          /\ crashed' \in Outcome(t, ls.w.crashed)
          /\ Set(t, [th[t] EXCEPT !.i = @ + 1, !.active = ls.active, !.failed = ls.failed])
  /\ UNCHANGED <<current, last, lock, begun>>

\* d.SubscriberSpecs = []SubscriberSpec{}, and the range over d.subscribers begins
BeginSweep(t) ==
  /\ crashed = "no"
  /\ th[t].pc = "loop"
  /\ th[t].i > Len(th[t].specs)
  /\ disp' = [disp EXCEPT ![th[t].di].SubscriberSpecs = <<>>]
  /\ Set(t, [th[t] EXCEPT !.pc = "sweep", !.seen = {},
                          !.pending = DOMAIN disp[th[t].di].subscribers])
  /\ UNCHANGED <<wrappers, groups, crashed, current, last, lock, begun>>

\* one pass of the sweep over d.subscribers
SweepStep(t) ==
  /\ crashed = "no"
  /\ th[t].pc = "sweep"
  /\ \E uid \in MayVisit(t), closeOk \in BOOLEAN :
       LET ls == SweepEntry(LocalsOf(t), th[t].di, uid, closeOk)
       IN /\ disp' = ls.w.disp
          /\ wrappers' = ls.w.wrappers
          /\ groups' = ls.w.groups
          /\ crashed' \in Outcome(t, ls.w.crashed)
          /\ Set(t, [th[t] EXCEPT !.pending = @ \ {uid}, !.seen = @ \cup {uid}])
  /\ UNCHANGED <<current, last, lock, begun>>

\* the deferred Unlock and the return of UpdateSubscriptions; inside
\* ConfigChanged, the check of the failures and the return of the new dispatcher
EndUpdateSubscriptions(t) ==
  /\ crashed = "no"
  /\ th[t].pc = "sweep"
  /\ RangeMayEnd(t)
  /\ lock' = [lock EXCEPT ![th[t].di] = NoThread]
  /\ Set(t, IdleThread)
  /\ IF th[t].op = "ConfigChanged"
     THEN IF Cardinality(DOMAIN th[t].failed) > 0
          THEN crashed' = "fatal" /\ UNCHANGED current
          ELSE current' = th[t].di /\ UNCHANGED crashed
     ELSE UNCHANGED <<crashed, current>>
  /\ UNCHANGED <<disp, wrappers, groups, last, begun>>

\* Shutdown is entered: the range over d.subscribers begins
BeginShutdown(t) ==
  /\ crashed = "no"
  /\ th[t].pc = "idle"
  /\ begun < MaxCalls
  /\ begun' = begun + 1
  /\ Set(t, [IdleThread EXCEPT !.pc = "shutdown", !.op = "Shutdown", !.di = current,
                               !.pending = DOMAIN disp[current].subscribers])
  /\ UNCHANGED <<disp, wrappers, groups, crashed, current, last, lock>>

\* one pass of Shutdown's loop: closeConsumerGroup(subscriber)
ShutdownStep(t) ==
  /\ crashed = "no"
  /\ th[t].pc = "shutdown"
  /\ \E uid \in MayVisit(t), closeOk \in BOOLEAN :
       LET w == ShutdownEntry(World, th[t].di, uid, closeOk)
       IN /\ disp' = w.disp
          /\ wrappers' = w.wrappers
          /\ groups' = w.groups
          /\ crashed' \in Outcome(t, w.crashed)
          /\ Set(t, [th[t] EXCEPT !.pending = @ \ {uid}, !.seen = @ \cup {uid}])
  /\ UNCHANGED <<current, last, lock, begun>>

\* Shutdown returns; inside ConfigChanged, the dispatcher is recreated next
EndShutdown(t) ==
  /\ crashed = "no"
  /\ th[t].pc = "shutdown"
  /\ RangeMayEnd(t)
  /\ IF th[t].op = "ConfigChanged"
     THEN Set(t, [th[t] EXCEPT !.pc = "recreate", !.pending = {}, !.seen = {}])
     ELSE Set(t, IdleThread)
  /\ UNCHANGED <<disp, wrappers, groups, crashed, current, last, lock, begun>>

\* ConfigChanged is entered: it returns nil at once unless the dispatcher is
\* to be recreated, and then calls d.Shutdown()
BeginConfigChanged(t) ==
  /\ crashed = "no"
  /\ th[t].pc = "idle"
  /\ begun < MaxCalls
  /\ begun' = begun + 1
  /\ \E configMap \in ConfigMaps :
       IF ~Recreates(disp[current], configMap)
       THEN Set(t, IdleThread)
       ELSE /\ Len(disp) < MaxDisp
            /\ Set(t, [IdleThread EXCEPT !.pc = "shutdown", !.op = "ConfigChanged",
                                         !.di = current,
                                         !.pending = DOMAIN disp[current].subscribers,
                                         !.newConfig = NewConfigOf(disp[current], configMap)])
  /\ UNCHANGED <<disp, wrappers, groups, crashed, current, last, lock>>

\* d.DispatcherConfig.SaramaConfig = newConfig; NewDispatcher(d.DispatcherConfig);
\* newDispatcher.UpdateSubscriptions(d.SubscriberSpecs) is entered
Recreate(t) ==
  /\ crashed = "no"
  /\ th[t].pc = "recreate"
  /\ Len(disp) < MaxDisp
  /\ LET d1 == [disp[th[t].di] EXCEPT !.SaramaConfig = th[t].newConfig]
     IN /\ disp' = Append([disp EXCEPT ![th[t].di] = d1], NewDispatcher(DispatcherConfigOf(d1)))
        /\ lock' = Append(lock, NoThread)
        /\ Set(t, [th[t] EXCEPT !.pc = "lock", !.di = Len(disp) + 1,
                                !.specs = d1.SubscriberSpecs])
  /\ UNCHANGED <<wrappers, groups, crashed, current, last, begun>>

NextConc ==
  \E t \in Threads :
    \/ BeginUpdateSubscriptions(t)
    \/ AcquireLock(t)
    \/ LoopStep(t)
    \/ BeginSweep(t)
    \/ SweepStep(t)
    \/ EndUpdateSubscriptions(t)
    \/ BeginShutdown(t)
    \/ ShutdownStep(t)
    \/ EndShutdown(t)
    \/ BeginConfigChanged(t)
    \/ Recreate(t)

SpecConc == Init /\ [][NextConc]_vars

\* ---------------------------------------------------------------- C4, C5, C6
\* thread t is inside the locked section of UpdateSubscriptions
InLockedSection(t) == th[t].pc \in {"loop", "sweep"}

\* thread t has run a pass of UpdateSubscriptions' loop and has the rest of
\* the call before it
MidUpdate(t) == th[t].pc = "loop" /\ th[t].i > 1

\* thread t takes a pass of the loop of a Shutdown (its own call or
\* ConfigChanged's): it closes a subscriber
ShutdownStepBy(t) == th[t].pc = "shutdown" /\ th'[t].seen # th[t].seen

\* C4: no step of Shutdown, nor of the teardown inside ConfigChanged, is taken
\* while another thread is between the first and the last registry-touching
\* step of an UpdateSubscriptions on the same dispatcher.
C4_ShutdownSerialized ==
  [][\A t \in Threads : ShutdownStepBy(t) =>
        \A u \in Threads \ {t} : ~(MidUpdate(u) /\ th[u].di = th[t].di)]_vars

\* C5: two UpdateSubscriptions calls on one dispatcher never interleave: a
\* thread inside the locked section holds the dispatcher's lock, and no other
\* thread is inside the locked section of the same dispatcher.
C5_UpdatesSerialized ==
  \A t \in Threads :
    InLockedSection(t) =>
       /\ lock[th[t].di] = t
       /\ \A u \in Threads \ {t} : ~(InLockedSection(u) /\ th[u].di = th[t].di)

\* C5 witness: one thread is in the middle of its UpdateSubscriptions while the
\* other stands at Lock() of the same dispatcher
C5_Witness ==
  \E t, u \in Threads :
    /\ MidUpdate(t)
    /\ th[u].pc = "lock" /\ th[u].di = th[t].di /\ th[u].op = "UpdateSubscriptions"
    /\ lock[th[t].di] = t

\* the thread that takes the step
Actor(t) == th'[t] # th[t]

\* C6: every change of a dispatcher's subscribers map or of its SubscriberSpecs
\* is made by a thread that holds that dispatcher's lock.
C6_MutationUnderLock ==
  [][\A di \in DOMAIN disp :
        (disp'[di].subscribers # disp[di].subscribers
           \/ disp'[di].SubscriberSpecs # disp[di].SubscriberSpecs)
        => \E t \in Threads : Actor(t) /\ lock[di] = t]_vars

\* ---------------------------------------------------------------- the observed call
PreD == last.pre.disp[last.di]
PostD == disp[last.di]
PreRegistered == DOMAIN PreD.subscribers
PostRegistered == DOMAIN PostD.subscribers

ObservedUpdate == last.op = "UpdateSubscriptions" /\ last.returned
ObservedShutdown == last.op = "Shutdown" /\ last.returned

\* position i of the desired sequence is one the factory is asked about: the
\* dispatcher has a configuration, the UID was not registered before the call
\* and no earlier position created it
Attempted(i) ==
  /\ PreD.SaramaConfig # NoConfig
  /\ last.desired[i].UID \notin PreRegistered
  /\ \A j \in 1..(i - 1) :
       last.desired[j].UID = last.desired[i].UID => last.outcomes[j] # "ok"

CreatedUIDs ==
  {last.desired[i].UID : i \in {k \in DOMAIN last.desired : Attempted(k) /\ last.outcomes[k] = "ok"}}

FailedPositions == {k \in DOMAIN last.desired : Attempted(k) /\ last.outcomes[k] # "ok"}

\* the failure map the claim asks for: every entry whose creation failed, with
\* the error of its (last) failed creation
ExpectedFailures ==
  [sp \in {last.desired[k] : k \in FailedPositions} |->
     LET ks == {k \in FailedPositions : last.desired[k] = sp}
         k == CHOOSE x \in ks : \A y \in ks : y <= x
     IN last.outcomes[k]]

\* the registrations the sweep of the observed UpdateSubscriptions tried to
\* close and could not
SweepCloseFailed ==
  {u \in PreRegistered \ DesiredUIDs(last.desired) : ~last.closeOk[u]}

\* C1 as stated: after UpdateSubscriptions the registry holds exactly the
\* previously registered desired identities and the new identities whose
\* creation succeeded, and the failure map holds exactly the entries whose
\* creation failed, each with its error.
C1_ContainmentAsStated ==
  (ObservedUpdate /\ PreD.SaramaConfig # NoConfig) =>
     /\ PostRegistered = (PreRegistered \cap DesiredUIDs(last.desired)) \cup CreatedUIDs
     /\ last.ret.m = ExpectedFailures

\* C1, amended: after UpdateSubscriptions the registry holds exactly the
\* previously registered desired identities, the new identities whose creation
\* succeeded, and the previously registered identities outside the desired set
\* whose close failed in the sweep; the failure map holds exactly the entries
\* whose creation failed, each with its error, whatever the other entries did.
C1_Containment ==
  ObservedUpdate =>
     /\ PostRegistered = IF PreD.SaramaConfig = NoConfig
                         THEN PreRegistered
                         ELSE (PreRegistered \cap DesiredUIDs(last.desired))
                                \cup CreatedUIDs \cup SweepCloseFailed
     /\ last.ret.m = ExpectedFailures
     /\ \A u \in CreatedUIDs :
          LET ref == PostD.subscribers[u]
          IN /\ ref > Len(last.pre.wrappers)
             /\ wrappers[ref].StopChan = "open"
             /\ groups[wrappers[ref].ConsumerGroup].loops = 1

\* C1 witness: a call in which one entry's creation failed and a later entry
\* was created all the same
C1_Witness ==
  /\ ObservedUpdate
  /\ \E i, j \in DOMAIN last.desired :
       /\ i < j
       /\ i \in FailedPositions
       /\ Attempted(j) /\ last.outcomes[j] = "ok"
       /\ last.desired[j].UID \in PostRegistered
       /\ last.desired[i] \in DOMAIN last.ret.m

\* ---------------------------------------------------------------- C2
\* the factory answered "ok" whenever the observed call asked it
FactorySucceeded == \A i \in DOMAIN last.desired : Attempted(i) => last.outcomes[i] = "ok"

\* a second UpdateSubscriptions with the desired sequence of the observed one,
\* run on the world the observed one left, changes nothing and asks the factory
\* nothing, whatever the factory would answer and whatever order the sweep takes
SecondCallChangesNothing ==
  \A order \in Orders, outcomes \in [DOMAIN last.desired -> CreateOutcomes] :
    LET r == UpdateSubscriptions(World, last.di, last.desired, outcomes, order,
                                 [u \in UIDs |-> TRUE])
    IN /\ r.w.crashed = "no"
       /\ r.calls = 0
       /\ Cardinality(DOMAIN r.ret.m) = 0
       /\ r.w.disp[last.di].subscribers = PostD.subscribers
       /\ r.w.wrappers = wrappers
       /\ r.w.groups = groups

StrictSubsetSeqs ==
  {s2 \in SeqsUpTo(SubscriberSpec, MaxLen) :
     /\ DesiredUIDs(s2) \subseteq DesiredUIDs(last.desired)
     /\ DesiredUIDs(s2) # DesiredUIDs(last.desired)}

\* C3: after an UpdateSubscriptions(S1) that succeeded fully, an
\* UpdateSubscriptions(S2) with S2 a strict subset of S1, all closes
\* succeeding, returns with every registration of S1 \ S2 cancelled, closed
\* and gone from the registry and every registration of S2 untouched.
C3_MonotoneRemoval ==
  (ObservedUpdate /\ ~last.ret.isNil /\ DOMAIN last.ret.m = {}) =>
     \A s2 \in StrictSubsetSeqs, order \in Orders :
       LET r == UpdateSubscriptions(World, last.di, s2, [i \in DOMAIN s2 |-> "ok"], order,
                                    [u \in UIDs |-> TRUE])
           after == r.w.disp[last.di].subscribers
       IN /\ r.w.crashed = "no"
          /\ \A u \in DesiredUIDs(last.desired) \ DesiredUIDs(s2) :
               /\ u \notin DOMAIN after
               /\ r.w.wrappers[PostD.subscribers[u]].StopChan = "closed"
               /\ r.w.groups[wrappers[PostD.subscribers[u]].ConsumerGroup].closed
          /\ \A u \in DesiredUIDs(s2) :
               /\ u \in DOMAIN after
               /\ after[u] = PostD.subscribers[u]
               /\ r.w.wrappers[after[u]] = wrappers[after[u]]
               /\ r.w.groups[wrappers[after[u]].ConsumerGroup]
                    = groups[wrappers[after[u]].ConsumerGroup]
          /\ Len(r.w.groups) = Len(groups)

\* ---------------------------------------------------------------- C7
\* C7: when every close of a Shutdown succeeds and Shutdown returns, the
\* registry is empty and every registration it held has had its StopChan
\* closed and its consumer group closed.
C7_ShutdownEmptiesRegistry ==
  (ObservedShutdown /\ \A u \in PreRegistered : last.closeOk[u]) =>
     /\ PostRegistered = {}
     /\ \A u \in PreRegistered :
          LET ref == PreD.subscribers[u]
          IN /\ wrappers[ref].StopChan = "closed"
             /\ groups[wrappers[ref].ConsumerGroup].closed
             /\ groups[wrappers[ref].ConsumerGroup].closeCalls = 1

\* C7 witness: a Shutdown of two registrations, both closing cleanly
C7_Witness ==
  /\ ObservedShutdown
  /\ PreRegistered = UIDs
  /\ \A u \in PreRegistered : last.closeOk[u]
  /\ PostRegistered = {}

\* ---------------------------------------------------------------- C8
\* C8: every Shutdown call completes without crashing, whatever the closes of
\* earlier calls answered, and a Shutdown of an empty registry changes nothing.
C8_ShutdownRepeatable ==
  last.op = "Shutdown" =>
     /\ last.returned
     /\ crashed = "no"
     /\ (PreRegistered = {} => World = last.pre)

\* ---------------------------------------------------------------- C9
\* the registrations the observed call set out to close
CloseTargets ==
  IF last.op = "Shutdown" THEN PreRegistered
  ELSE IF last.op = "UpdateSubscriptions" /\ PreD.SaramaConfig # NoConfig
  THEN PreRegistered \ DesiredUIDs(last.desired)
  ELSE {}

\* Close() was called on the consumer group of u's registration during the call
CloseCalled(u) ==
  LET cg == last.pre.wrappers[PreD.subscribers[u]].ConsumerGroup
  IN groups[cg].closeCalls > last.pre.groups[cg].closeCalls

\* C9: when the Close() of a registration's consumer group fails, in Shutdown
\* or in the sweep of UpdateSubscriptions, the registration stays in the
\* registry with its StopChan closed and the failure is in no failure map;
\* when the Close() succeeds the registration is removed.
C9_CloseFailureRetained ==
  last.op \in {"Shutdown", "UpdateSubscriptions"} =>
     /\ last.returned => \A u \in CloseTargets : CloseCalled(u)
     /\ \A u \in CloseTargets :
          CloseCalled(u) =>
             LET ref == PreD.subscribers[u]
                 cg == wrappers[ref].ConsumerGroup
             IN /\ wrappers[ref].StopChan = "closed"
                /\ IF last.closeOk[u]
                   THEN u \notin PostRegistered /\ groups[cg].closed
                   ELSE /\ u \in PostRegistered
                        /\ PostD.subscribers[u] = ref
                        /\ ~groups[cg].closed
                        /\ last.op = "UpdateSubscriptions" =>
                             \A sp \in DOMAIN last.ret.m : sp.UID # u

\* C9 witness: a sweep in which one close fails and another succeeds
C9_Witness ==
  /\ ObservedUpdate
  /\ \E u, v \in CloseTargets :
       /\ CloseCalled(u) /\ ~last.closeOk[u] /\ u \in PostRegistered
       /\ CloseCalled(v) /\ last.closeOk[v] /\ v \notin PostRegistered

\* ---------------------------------------------------------------- C10
\* the ConfigMap of the observed ConfigChanged merges, and its result with the
\* held client id and credentials differs from the dispatcher's configuration
\* in the Producer section at most
ProducerOnlyChange ==
  /\ last.op = "ConfigChanged"
  /\ last.configMap.valid
  /\ PreD.SaramaConfig # NoConfig
  /\ last.configMap.sarama.Consumer = PreD.SaramaConfig.Consumer

\* C10: a ConfigChanged whose merged configuration differs from the present
\* one in Producer settings only, or not at all, returns nil and leaves the
\* dispatcher, its registrations, their StopChans and consumer groups as
\* they were: no teardown, no factory call, no new dispatcher.
C10_ConfigChangeNoOp ==
  ProducerOnlyChange =>
     /\ last.returned
     /\ last.ret = NilRef
     /\ ~last.rebuilt
     /\ World = last.pre
     /\ current = last.di

\* C10 witness: a Producer-only change arriving at a dispatcher with a registration
C10_Witness ==
  /\ ProducerOnlyChange
  /\ last.configMap.sarama.Producer # PreD.SaramaConfig.Producer
  /\ PreRegistered # {}
  /\ World = last.pre

\* ---------------------------------------------------------------- C11
\* the observed call is a ConfigChanged that goes on to recreate the dispatcher
ConsumerChange == last.op = "ConfigChanged" /\ Recreates(PreD, last.configMap)

\* the dispatcher constructed last
NewD == disp[Len(disp)]

\* the positions of the old dispatcher's SubscriberSpecs whose creation on the
\* new dispatcher failed
RebuildFailures == {i \in DOMAIN last.outcomes : last.outcomes[i] # "ok"}

\* the UIDs of the old dispatcher's SubscriberSpecs whose creation succeeded
RebuildCreated ==
  {PreD.SubscriberSpecs[i].UID : i \in DOMAIN last.outcomes \ RebuildFailures}

\* C11: a ConfigChanged whose merged configuration differs from the present
\* one in the consumer settings tears down every registration of the present
\* dispatcher as Shutdown does (StopChan closed, Close() called once more),
\* constructs a new dispatcher holding the merged configuration, runs
\* UpdateSubscriptions on it and, when no creation fails, returns it.
C11_RebuildSequence ==
  ConsumerChange =>
     /\ \A u \in PreRegistered :
          LET ref == PreD.subscribers[u]
              cg == last.pre.wrappers[ref].ConsumerGroup
          IN /\ wrappers[ref].StopChan = "closed"
             /\ groups[cg].closeCalls = last.pre.groups[cg].closeCalls + 1
     /\ Len(disp) = Len(last.pre.disp) + 1
     /\ NewD.SaramaConfig = NewConfigOf(PreD, last.configMap)
     /\ DOMAIN NewD.subscribers = RebuildCreated
     /\ (RebuildFailures = {} => last.returned /\ last.ret = Len(disp) /\ current = Len(disp))

\* ---------------------------------------------------------------- C12
\* C12: the dispatcher a recreating ConfigChanged returns has a registration
\* for exactly the identities that were registered in the old dispatcher right
\* before the call, each with the specification registered there.
C12_RebuildReregistersActive ==
  (ConsumerChange /\ last.returned /\ last.ret # NilRef) =>
     /\ DOMAIN NewD.subscribers = PreRegistered
     /\ \A u \in PreRegistered :
          wrappers[NewD.subscribers[u]].SubscriberSpec =
            last.pre.wrappers[PreD.subscribers[u]].SubscriberSpec

\* ---------------------------------------------------------------- C13
\* the observed call is a ConfigChanged whose ConfigMap differs from the
\* dispatcher's configuration in the client id and in nothing else
ClientIdOnlyChange ==
  /\ last.op = "ConfigChanged"
  /\ last.configMap.valid
  /\ PreD.SaramaConfig # NoConfig
  /\ last.configMap.sarama.ClientID # PreD.SaramaConfig.ClientID
  /\ last.configMap.sarama = [PreD.SaramaConfig EXCEPT !.ClientID = last.configMap.sarama.ClientID]

\* C13 as stated: a ConfigChanged whose only difference is the client id
\* closes every registration and returns a replacement dispatcher.
C13_ClientIdChangeAsStated ==
  ClientIdOnlyChange =>
     /\ last.rebuilt
     /\ last.ret # NilRef
     /\ \A u \in PreRegistered : wrappers[PreD.subscribers[u]].StopChan = "closed"

\* C13: a ConfigChanged whose only difference is the client id is no consumer
\* change: the dispatcher's own client id replaces the ConfigMap's before the
\* comparison, the call returns nil and nothing is closed, created or replaced.
C13_ClientIdChangeIgnored ==
  ClientIdOnlyChange =>
     /\ last.returned
     /\ last.ret = NilRef
     /\ ~last.rebuilt
     /\ World = last.pre
     /\ current = last.di

\* C13 witness: a client-id-only ConfigChanged on a dispatcher with a
\* registration, which is still registered and open afterwards
C13_Witness ==
  /\ ClientIdOnlyChange
  /\ PreRegistered # {}
  /\ \A u \in PreRegistered : wrappers[PreD.subscribers[u]].StopChan = "open"
  /\ PostRegistered = PreRegistered

\* ---------------------------------------------------------------- C14
\* the observed call is a ConfigChanged with a ConfigMap that merges, on a
\* dispatcher that has a configuration
MergedOntoSnapshot ==
  /\ last.op = "ConfigChanged"
  /\ last.configMap.valid
  /\ PreD.SaramaConfig # NoConfig

\* client id, user and password of a configuration
Credentials(config) ==
  [ClientID |-> config.ClientID, User |-> config.User, Password |-> config.Password]

\* C14: the configuration ConfigChanged compares with the dispatcher's present
\* one, and the configuration of the dispatcher it constructs, carry the client
\* id, user and password of the present configuration, whatever the ConfigMap
\* has for them.
C14_CredentialsPreserved ==
  MergedOntoSnapshot =>
     /\ Credentials(NewConfigOf(PreD, last.configMap)) = Credentials(PreD.SaramaConfig)
     /\ (Len(disp) > Len(last.pre.disp) =>
           /\ NewD.SaramaConfig = NewConfigOf(PreD, last.configMap)
           /\ Credentials(NewD.SaramaConfig) = Credentials(PreD.SaramaConfig))

\* C14 witness: a ConfigChanged that returned a new dispatcher for a ConfigMap
\* whose client id, user or password is not the dispatcher's
C14_Witness ==
  /\ MergedOntoSnapshot
  /\ last.returned /\ last.ret # NilRef
  /\ Credentials(last.configMap.sarama) # Credentials(PreD.SaramaConfig)
  /\ Credentials(NewD.SaramaConfig) = Credentials(PreD.SaramaConfig)

\* ---------------------------------------------------------------- C15
\* the observed ConfigChanged got as far as UpdateSubscriptions on the new
\* dispatcher, which reported at least one failed creation
RebuildFailed == ConsumerChange /\ last.rebuilt /\ RebuildFailures # {}

\* C15: when UpdateSubscriptions on the new dispatcher reports any failure,
\* ConfigChanged ends the process through Logger.Fatal and hands no dispatcher
\* back; the caller is left with no return value to go on with.
C15_FatalRebuild ==
  RebuildFailed =>
     /\ crashed = "fatal"
     /\ ~last.returned
     /\ last.ret = NilRef
     /\ current = last.di

\* C15 witness: a rebuild of two registrations of which one creation failed
\* and the other succeeded, ending in Logger.Fatal
C15_Witness ==
  /\ RebuildFailed
  /\ Len(last.outcomes) = 2
  /\ Cardinality(RebuildFailures) = 1
  /\ crashed = "fatal"

\* ---------------------------------------------------------------- C16
\* the dispatchers, the replaced ones included, that hold a registration of uid
HoldersOf(uid) == {di \in DOMAIN disp : uid \in DOMAIN disp[di].subscribers}

\* C16: over all dispatcher instances, the replaced ones included, no UID has
\* more than one registration.
C16_OneRegistrationPerUID ==
  \A uid \in UIDs : Cardinality(HoldersOf(uid)) <= 1

\* ---------------------------------------------------------------- consumption loops
\* The goroutine startConsuming starts for a consumer group: an endless loop
\* of a non-blocking check of StopChan and, when it is not closed, a blocking
\* ConsumerGroup.Consume(). The `break` after ErrClosedConsumerGroup leaves the
\* select only, so every return of Consume leads back to the check.
\* The goroutines are threads of `th` beside the caller threads:
\*   pc        "select" (at the check), "consume" (inside Consume) or "exited"
\*   unblocked what ended the Consume the loop has come back from: "none",
\*             "close" when Close() had been called on the group, "other" (a
\*             rebalance, an error)
\*   err       what that Consume returned

\* the thread of the consumption loop of consumer group cg
LoopThread(cg) == Cardinality(Threads) + cg

LoopStarted == [pc |-> "select", unblocked |-> "none", err |-> "none"]

\* the thread of the error draining of consumer group cg
DrainThread(cg) == LoopThread(MaxLoops) + cg

DrainStarted == [pc |-> "range", pending |-> 0]

\* the caller's thread
Caller == CHOOSE t \in Threads : \A u \in Threads : t <= u

\* the wrapper that owns consumer group cg
WrapperOf(cg) == CHOOSE ref \in DOMAIN wrappers : wrappers[ref].ConsumerGroup = cg

\* a select that never takes the StopChan case
LoopSelectIgnoringStop(stopChan) == "consume"

\* the select of the loop: return when StopChan is closed, Consume otherwise
LoopSelect(stopChan) == IF stopChan = "closed" THEN "exited" ELSE "consume"

\* what Consume may return on consumer group cg: nil after a rebalance or an
\* error; once Close() has been called on the group, ErrClosedConsumerGroup or
\* an error
ConsumeResults(cg) ==
  IF groups[cg].closeCalls > 0 THEN {"ErrClosedConsumerGroup", "error"} ELSE {"nil", "error"}

\* a loop whose `break` left the loop
AfterConsumeBreakingLoop(err) ==
  IF err = "ErrClosedConsumerGroup" THEN "exited" ELSE "select"

\* where the loop goes on after Consume returned err: the `break` after
\* ErrClosedConsumerGroup leaves the select, not the for, and every other
\* return falls out of the select as well
AfterConsume(err) == "select"

\* a consumption loop that holds every consumerUpdateLock while it runs
LockAfterLoopStepLocking(lk, cg) == [di \in DOMAIN lk |-> LoopThread(cg)]

\* consumerUpdateLock after a step of the consumption loop of cg: the
\* goroutines of startConsuming have no Lock() and no Unlock()
LockAfterLoopStep(lk, cg) == lk

\* an error draining that stops the subscriber at the first error
DrainedStopping(w, cg) ==
  LET ref == CHOOSE r \in DOMAIN w.wrappers : w.wrappers[r].ConsumerGroup = cg
  IN [w EXCEPT !.wrappers[ref].StopChan = "closed"]

\* the world after the error draining has taken an error off Errors(): the
\* error is logged
Drained(w, cg) == w

\* the caller invokes UpdateSubscriptions while the loops run
DoUpdateSubscriptions ==
  /\ crashed = "no"
  /\ th[Caller].pc = "idle"
  /\ CanLock(Caller, current)
  /\ \E subscriberSpecs \in SeqsUpTo(ThreadSpecs, MaxLen), order \in Orders :
       \E outcomes \in FactoryOutcomes(subscriberSpecs, Registered(current)),
          closeOk \in CloseOutcomes(Registered(current) \ DesiredUIDs(subscriberSpecs)) :
         LET r == UpdateSubscriptions(World, current, subscriberSpecs, outcomes, order, closeOk)
         IN /\ Len(r.w.groups) <= MaxLoops
            /\ Install(r.w)
            /\ UNCHANGED <<current, last, th, begun>>

\* the caller enters Shutdown, which is followed statement by statement
DoShutdown ==
  /\ crashed = "no"
  /\ th[Caller].pc = "idle"
  /\ Set(Caller, [IdleThread EXCEPT !.pc = "shutdown", !.op = "Shutdown", !.di = current,
                                    !.pending = DOMAIN disp[current].subscribers])
  /\ UNCHANGED <<disp, wrappers, groups, crashed, current, last, lock, begun>>

\* Shutdown's range hands out the next subscriber, and closeConsumerGroup
\* closes its StopChan
CloseStopChan ==
  /\ crashed = "no"
  /\ th[Caller].pc = "shutdown"
  /\ \E uid \in MayVisit(Caller) :
       LET ref == disp[th[Caller].di].subscribers[uid]
           w == closeStopChan(World, ref)
       IN /\ wrappers' = w.wrappers
          /\ crashed' = w.crashed
          /\ Set(Caller, [th[Caller] EXCEPT !.pc = "signalled", !.i = ref])
  /\ UNCHANGED <<disp, groups, current, last, lock, begun>>

\* closeConsumerGroup calls Close() on the consumer group
InvokeClose ==
  /\ crashed = "no"
  /\ th[Caller].pc = "signalled"
  /\ groups' = invokeClose(World, th[Caller].i).groups
  /\ Set(Caller, [th[Caller] EXCEPT !.pc = "closing"])
  /\ UNCHANGED <<disp, wrappers, crashed, current, last, lock, begun>>

\* Close() returns, and closeConsumerGroup with it
CloseReturns ==
  /\ crashed = "no"
  /\ th[Caller].pc = "closing"
  /\ \E closeOk \in BOOLEAN :
       LET ref == th[Caller].i
           uid == wrappers[ref].SubscriberSpec.UID
           w == closeReturned(World, th[Caller].di, ref, closeOk)
       IN /\ disp' = w.disp
          /\ groups' = w.groups
          /\ Set(Caller, [th[Caller] EXCEPT !.pc = "shutdown", !.i = 0,
                                           !.pending = @ \ {uid}, !.seen = @ \cup {uid}])
  /\ UNCHANGED <<wrappers, crashed, current, last, lock, begun>>

\* the goroutine of the consumption loop comes to run
StartLoop(cg) ==
  /\ crashed = "no"
  /\ cg \in DOMAIN groups
  /\ groups[cg].loops > 0
  /\ LoopThread(cg) \notin DOMAIN th
  /\ th' = [t \in DOMAIN th \cup {LoopThread(cg)} |->
              IF t = LoopThread(cg) THEN LoopStarted ELSE th[t]]
  /\ UNCHANGED <<disp, wrappers, groups, crashed, current, last, lock, begun>>

\* the loop is at its select
SelectStopChan(cg) ==
  /\ crashed = "no"
  /\ LoopThread(cg) \in DOMAIN th
  /\ th[LoopThread(cg)].pc = "select"
  /\ LET pc == LoopSelect(wrappers[WrapperOf(cg)].StopChan)
     IN th' = [th EXCEPT ![LoopThread(cg)] =
                 IF pc = "consume" THEN [LoopStarted EXCEPT !.pc = pc] ELSE [@ EXCEPT !.pc = pc]]
  /\ lock' = LockAfterLoopStep(lock, cg)
  /\ UNCHANGED <<disp, wrappers, groups, crashed, current, last, begun>>

\* the pending Consume returns: the group was closed, or the server rebalanced
\* the group, or Consume failed
ConsumeReturns(cg) ==
  /\ crashed = "no"
  /\ LoopThread(cg) \in DOMAIN th
  /\ th[LoopThread(cg)].pc = "consume"
  /\ \E err \in ConsumeResults(cg) :
       th' = [th EXCEPT ![LoopThread(cg)] =
                [pc |-> AfterConsume(err),
                 unblocked |-> IF groups[cg].closeCalls > 0 THEN "close" ELSE "other",
                 err |-> err]]
  /\ UNCHANGED <<disp, wrappers, groups, crashed, current, last, lock, begun>>

\* the goroutine of the error draining comes to run
StartDrain(cg) ==
  /\ crashed = "no"
  /\ cg \in DOMAIN groups
  /\ groups[cg].loops > 0
  /\ DrainThread(cg) \notin DOMAIN th
  /\ th' = [t \in DOMAIN th \cup {DrainThread(cg)} |->
              IF t = DrainThread(cg) THEN DrainStarted ELSE th[t]]
  /\ UNCHANGED <<disp, wrappers, groups, crashed, current, last, lock, begun>>

\* the consumer group puts an error on its Errors() channel
ErrorArrives(cg) ==
  /\ crashed = "no"
  /\ DrainThread(cg) \in DOMAIN th
  /\ th[DrainThread(cg)].pc = "range"
  /\ th[DrainThread(cg)].pending < MaxErrors
  /\ ~groups[cg].closed
  /\ th' = [th EXCEPT ![DrainThread(cg)].pending = @ + 1]
  /\ UNCHANGED <<disp, wrappers, groups, crashed, current, last, lock, begun>>

\* the range of the error draining takes an error off the channel
ReceiveError(cg) ==
  /\ crashed = "no"
  /\ DrainThread(cg) \in DOMAIN th
  /\ th[DrainThread(cg)].pc = "range"
  /\ th[DrainThread(cg)].pending > 0
  /\ th' = [th EXCEPT ![DrainThread(cg)].pending = @ - 1,
                      ![DrainThread(cg)].pc = "logging"]
  /\ UNCHANGED <<disp, wrappers, groups, crashed, current, last, lock, begun>>

\* the error draining logs the error it took and goes back to the range
DrainError(cg) ==
  /\ crashed = "no"
  /\ DrainThread(cg) \in DOMAIN th
  /\ th[DrainThread(cg)].pc = "logging"
  /\ th' = [th EXCEPT ![DrainThread(cg)].pc = "range"]
  /\ LET w == Drained(World, cg)
     IN /\ disp' = w.disp
        /\ wrappers' = w.wrappers
        /\ groups' = w.groups
        /\ crashed' = w.crashed
  /\ UNCHANGED <<current, last, lock, begun>>

\* the group is closed and its Errors() channel with it: the range ends
DrainEnds(cg) ==
  /\ crashed = "no"
  /\ DrainThread(cg) \in DOMAIN th
  /\ th[DrainThread(cg)].pc = "range"
  /\ th[DrainThread(cg)].pending = 0
  /\ groups[cg].closed
  /\ th' = [th EXCEPT ![DrainThread(cg)].pc = "done"]
  /\ UNCHANGED <<disp, wrappers, groups, crashed, current, last, lock, begun>>

NextLoop ==
  \/ DoUpdateSubscriptions
  \/ DoShutdown
  \/ CloseStopChan
  \/ InvokeClose
  \/ CloseReturns
  \/ EndShutdown(Caller)
  \/ \E cg \in 1..MaxLoops : StartLoop(cg)
  \/ \E cg \in 1..MaxLoops : SelectStopChan(cg)
  \/ \E cg \in 1..MaxLoops : ConsumeReturns(cg)

\* a goroutine that can run is run: the Go scheduler starves no runnable one
SpecLoop ==
  /\ Init
  /\ [][NextLoop]_vars
  /\ \A cg \in 1..MaxLoops : WF_vars(SelectStopChan(cg))

\* the caller, the consumption loops and the error drainings together
NextDrain ==
  \/ NextLoop
  \/ \E cg \in 1..MaxLoops : StartDrain(cg)
  \/ \E cg \in 1..MaxLoops : ErrorArrives(cg)
  \/ \E cg \in 1..MaxLoops : ReceiveError(cg)
  \/ \E cg \in 1..MaxLoops : DrainError(cg)
  \/ \E cg \in 1..MaxLoops : DrainEnds(cg)

SpecDrain == Init /\ [][NextDrain]_vars

\* ---------------------------------------------------------------- C17
LoopAt(cg, pc) == LoopThread(cg) \in DOMAIN th /\ th[LoopThread(cg)].pc = pc

\* the StopChan of cg's wrapper is closed and the Close() of the group has
\* ended the pending Consume: the loop is back at its select
Unblocked(cg) ==
  /\ LoopAt(cg, "select")
  /\ th[LoopThread(cg)].unblocked = "close"
  /\ wrappers[WrapperOf(cg)].StopChan = "closed"

\* the loop is over: it has returned, or the process has ended
LoopOver(cg) == LoopAt(cg, "exited") \/ crashed # "no"

\* C17: once a registration's StopChan is closed and the Close() of its group
\* has ended the pending Consume, the consumption loop comes to its select,
\* takes the StopChan case and returns; a loop that has returned never calls
\* Consume again.
C17_LoopTerminates ==
  /\ \A cg \in 1..MaxLoops : Unblocked(cg) ~> LoopOver(cg)
  /\ [][\A cg \in 1..MaxLoops : LoopAt(cg, "exited") => LoopAt(cg, "exited")']_vars

\* C17 witness: a loop whose Consume was ended by Close() and which has
\* returned at the select that followed
C17_Witness ==
  \E cg \in 1..MaxLoops :
     /\ LoopAt(cg, "exited")
     /\ th[LoopThread(cg)].unblocked = "close"
     /\ groups[cg].closed

\* ---------------------------------------------------------------- C18
\* the subscribers an observed UpdateSubscriptions has no business with: they
\* were registered with an open StopChan before the call and are desired
Bystanders ==
  {u \in PreRegistered \cap DesiredUIDs(last.desired) :
     last.pre.wrappers[PreD.subscribers[u]].StopChan = "open"}

\* C18: whatever an UpdateSubscriptions does about other subscribers (a failed
\* creation, a teardown in the sweep), a subscriber that stays desired keeps
\* its registration, its consumer group and its open StopChan, and the process
\* its consumption loop runs in goes on.
C18_FailureIsolation ==
  (last.op = "UpdateSubscriptions" /\ PreD.SaramaConfig # NoConfig) =>
     \A u \in Bystanders :
        LET ref == PreD.subscribers[u]
            cg == last.pre.wrappers[ref].ConsumerGroup
        IN /\ crashed = "no"
           /\ u \in PostRegistered
           /\ PostD.subscribers[u] = ref
           /\ wrappers[ref] = last.pre.wrappers[ref]
           /\ groups[cg] = last.pre.groups[cg]

\* ---------------------------------------------------------------- C19
\* C19: an UpdateSubscriptions that returns an empty failure map, or none at
\* all, has every desired UID in the registry when it returns.
C19_EmptyMeansSuccess ==
  (ObservedUpdate /\ Cardinality(DOMAIN last.ret.m) = 0) =>
     DesiredUIDs(last.desired) \subseteq PostRegistered

\* ---------------------------------------------------------------- C20
\* UID texts beyond those of the runs: empty, one within another, one that
\* repeats the prefix
UIDTexts == UIDs \cup {"", "AB", "BA", "kafka.", "kafka.A", ".A"}

\* C20: the group id of every registration ever made is GroupIdOf of its UID
\* and of nothing else in its specification; two registrations have the same
\* group id exactly when they have the same UID, on whichever dispatcher they
\* were made; and GroupIdOf never gives two UID texts the same group id.
C20_GroupIdDerivation ==
  /\ \A ref \in DOMAIN wrappers :
       wrappers[ref].GroupId = GroupIdOf(wrappers[ref].SubscriberSpec.UID)
  /\ \A r1, r2 \in DOMAIN wrappers :
       (wrappers[r1].GroupId = wrappers[r2].GroupId) <=>
         (wrappers[r1].SubscriberSpec.UID = wrappers[r2].SubscriberSpec.UID)
  /\ \A u1, u2 \in UIDTexts : GroupIdOf(u1) = GroupIdOf(u2) => u1 = u2

\* C20 witness: after a ConfigChanged that recreated the dispatcher, two
\* registrations of one UID with one group id and a registration of another
\* UID with another group id
C20_Witness ==
  /\ Len(disp) = 2
  /\ \E r1, r2, r3 \in DOMAIN wrappers :
       /\ r1 # r2
       /\ wrappers[r1].SubscriberSpec.UID = wrappers[r2].SubscriberSpec.UID
       /\ wrappers[r1].GroupId = wrappers[r2].GroupId
       /\ wrappers[r3].SubscriberSpec.UID # wrappers[r1].SubscriberSpec.UID
       /\ wrappers[r3].GroupId # wrappers[r1].GroupId

\* ---------------------------------------------------------------- C21
\* the registration of wrapper ref has been removed from the subscribers map
Removed(ref) ==
  \A di \in DOMAIN disp :
     LET uid == wrappers[ref].SubscriberSpec.UID
     IN uid \notin DOMAIN disp[di].subscribers \/ disp[di].subscribers[uid] # ref

\* C21: in every state of a teardown, a consumer group on which Close() has
\* been called belongs to a wrapper whose StopChan is closed already, and a
\* registration that is no longer in the map has a consumer group whose
\* Close() succeeded.
C21_TeardownOrder ==
  /\ \A cg \in DOMAIN groups :
       groups[cg].closeCalls > 0 => wrappers[WrapperOf(cg)].StopChan = "closed"
  /\ \A ref \in DOMAIN wrappers :
       Removed(ref) => groups[wrappers[ref].ConsumerGroup].closed

\* C21 witness: Shutdown is inside Close() of a registration: its StopChan is
\* closed, Close() has not returned and the registration is still in the map
C21_Witness ==
  /\ th[Caller].pc = "closing"
  /\ wrappers[th[Caller].i].StopChan = "closed"
  /\ groups[wrappers[th[Caller].i].ConsumerGroup].closeCalls = 1
  /\ ~Removed(th[Caller].i)

\* ---------------------------------------------------------------- C22
\* the registrations the observed call tears down that were retained by an
\* earlier teardown whose Close() failed: their StopChan is closed already
RetriedTargets ==
  {u \in CloseTargets : last.pre.wrappers[PreD.subscribers[u]].StopChan = "closed"}

\* C22: a Shutdown or a sweep that comes to a registration retained after a
\* failed Close() returns, has called Close() on its consumer group once more
\* and, when that Close() succeeds, has removed the registration.
C22_CloseRetried ==
  (last.op \in {"Shutdown", "UpdateSubscriptions"}) =>
     \A u \in RetriedTargets :
        LET ref == PreD.subscribers[u]
            cg == last.pre.wrappers[ref].ConsumerGroup
        IN /\ last.returned
           /\ crashed = "no"
           /\ groups[cg].closeCalls = last.pre.groups[cg].closeCalls + 1
           /\ (last.closeOk[u] => u \notin PostRegistered)

\* ---------------------------------------------------------------- C23
\* Shutdown is inside Close() of consumer group cg
CallerInClose(cg) ==
  th[Caller].pc = "closing" /\ wrappers[th[Caller].i].ConsumerGroup = cg

\* C23 as stated: the consumption loop is never inside Consume while the
\* dispatcher is inside Close() of the same consumer group.
C23_CloseConsumeExclusive ==
  \A cg \in DOMAIN groups : ~(LoopAt(cg, "consume") /\ CallerInClose(cg))

\* C23: Close() may be called while the loop is inside Consume on the same
\* consumer group; what holds is the order: whenever the dispatcher is inside
\* Close() the StopChan of that registration is closed already, and a loop that
\* leaves its select while StopChan is closed leaves it by returning, never
\* into another Consume.
C23_CloseAfterSignal ==
  /\ [](\A cg \in DOMAIN groups :
          CallerInClose(cg) => wrappers[WrapperOf(cg)].StopChan = "closed")
  /\ [][\A cg \in DOMAIN groups :
          (/\ LoopAt(cg, "select")
           /\ wrappers[WrapperOf(cg)].StopChan = "closed"
           /\ ~LoopAt(cg, "select")') => LoopAt(cg, "exited")']_vars

\* C23 witness: the loop is inside Consume while Shutdown is inside Close() of
\* the same consumer group
C23_Witness ==
  \E cg \in DOMAIN groups : LoopAt(cg, "consume") /\ CallerInClose(cg)

LoopThreads == {LoopThread(cg) : cg \in 1..MaxLoops} \cup {DrainThread(cg) : cg \in 1..MaxLoops}

\* C25: no consumerUpdateLock is ever held by a consumption loop or an error
\* draining, and whatever the loops are doing, a caller that is between two
\* calls can take the lock and run an UpdateSubscriptions to its end.
C25_LockFreeOfLoops ==
  /\ \A di \in DOMAIN lock : lock[di] \notin LoopThreads
  /\ (crashed = "no" /\ th[Caller].pc = "idle") =>
        /\ CanLock(Caller, current)
        /\ ENABLED DoUpdateSubscriptions

\* C25 witness: one loop is blocked inside Consume, the error draining of the
\* other has an error to log, and the caller can take the lock
C25_Witness ==
  /\ crashed = "no" /\ th[Caller].pc = "idle"
  /\ \E cg1, cg2 \in 1..MaxLoops :
       /\ cg1 # cg2
       /\ LoopAt(cg1, "consume")
       /\ DrainThread(cg2) \in DOMAIN th /\ th[DrainThread(cg2)].pending > 0
  /\ CanLock(Caller, current)

\* ---------------------------------------------------------------- C30
\* the error draining of consumer group cg takes an error off the channel or
\* logs the one it took
ErrorDrained(cg) ==
  /\ DrainThread(cg) \in DOMAIN th
  /\ \/ th'[DrainThread(cg)].pending < th[DrainThread(cg)].pending
     \/ th[DrainThread(cg)].pc = "logging" /\ th'[DrainThread(cg)].pc = "range"

\* C30: a step in which the error draining of a consumer group takes an error
\* off Errors() or logs it leaves the consumption loops, the wrappers with
\* their StopChans, the consumer groups, the subscribers maps and the locks
\* as they are, and the process running.
C30_DrainLeavesLoop ==
  [][\A cg \in 1..MaxLoops :
       ErrorDrained(cg) =>
          /\ \A t \in DOMAIN th \ {DrainThread(cg)} : th'[t] = th[t]
          /\ wrappers' = wrappers
          /\ groups' = groups
          /\ disp' = disp
          /\ lock' = lock
          /\ crashed' = crashed]_vars

\* C30 witness: the error draining of a registered consumer group has taken
\* an error off the channel while the consumption loop of the group is inside
\* Consume and its StopChan is open
C30_Witness ==
  \E cg \in 1..MaxLoops :
     /\ DrainThread(cg) \in DOMAIN th
     /\ th[DrainThread(cg)].pc = "logging"
     /\ LoopAt(cg, "consume")
     /\ wrappers[WrapperOf(cg)].StopChan = "open"
     /\ ~Removed(WrapperOf(cg))

\* ---------------------------------------------------------------- C26
\* the observed UpdateSubscriptions got as far as the sweep and returned
SweepReached == ObservedUpdate /\ PreD.SaramaConfig # NoConfig

\* the specifications stored with the registrations that are in the map after
\* the call and whose UID the call listed
SurvivingSpecs ==
  {wrappers[PostD.subscribers[u]].SubscriberSpec :
     u \in PostRegistered \cap DesiredUIDs(last.desired)}

\* C26: after an UpdateSubscriptions that reaches the sweep (and returns),
\* d.SubscriberSpecs holds, once each, exactly the stored specifications of
\* the subscribers that are registered and listed by the call: no entry whose
\* creation failed, and none of a swept subscriber, whether its Close()
\* succeeded or not.
C26_RetainedSpecs ==
  SweepReached =>
     /\ Range(PostD.SubscriberSpecs) = SurvivingSpecs
     /\ Len(PostD.SubscriberSpecs) = Cardinality(SurvivingSpecs)
     /\ \A i \in DOMAIN PostD.SubscriberSpecs :
          /\ PostD.SubscriberSpecs[i].UID \notin PreRegistered \ DesiredUIDs(last.desired)
          /\ PostD.SubscriberSpecs[i].UID \in PostRegistered

\* C26 witness: a call that kept one subscriber, failed to create another
\* entry or none, and swept a subscriber whose Close() failed, so that the
\* swept one is still registered but not retained
C26_Witness ==
  /\ SweepReached
  /\ Len(PostD.SubscriberSpecs) > 0
  /\ SweepCloseFailed # {}
  /\ SweepCloseFailed \subseteq PostRegistered

\* ---------------------------------------------------------------- C27
\* the positions of the desired sequence that list a registered UID with a
\* specification other than the stored one
ChangedEntries ==
  {i \in DOMAIN last.desired :
     /\ last.desired[i].UID \in PreRegistered
     /\ last.pre.wrappers[PreD.subscribers[last.desired[i].UID]].SubscriberSpec
          # last.desired[i]}

\* the wrappers the observed call created
NewRefs == (Len(last.pre.wrappers) + 1)..Len(wrappers)

\* C27: an UpdateSubscriptions that lists a registered UID with a different
\* specification leaves that registration as it was: the same wrapper with the
\* same GroupId, stored specification and StopChan, the same consumer group
\* with the loops it had, no factory call for the entry and no new wrapper
\* for the UID.
C27_NoInPlaceUpdate ==
  ObservedUpdate =>
     \A i \in ChangedEntries :
        LET uid == last.desired[i].UID
            ref == PreD.subscribers[uid]
        IN /\ uid \in PostRegistered
           /\ PostD.subscribers[uid] = ref
           /\ wrappers[ref] = last.pre.wrappers[ref]
           /\ groups[ref] = last.pre.groups[ref]
           /\ ~Attempted(i)
           /\ last.calls = Cardinality({k \in DOMAIN last.desired : Attempted(k)})
           /\ \A r \in NewRefs : wrappers[r].SubscriberSpec.UID # uid

\* C27 witness: a call that listed a registered subscriber with another
\* generation, next to an entry it asked the factory about
C27_Witness ==
  /\ ObservedUpdate
  /\ ChangedEntries # {}
  /\ last.calls > 0

\* ---------------------------------------------------------------- C28
\* the UIDs for which every creation the observed call tried has failed
FailedUIDs == {last.desired[k].UID : k \in FailedPositions} \ CreatedUIDs

C29_OldSnapshotKept ==
  last.op = "ConfigChanged" => PostD.SaramaConfig = PreD.SaramaConfig

\* ---------------------------------------------------------------- C31
\* the observed call is an UpdateSubscriptions on a dispatcher without a
\* sarama.Config
UpdateWithoutConfig == last.op = "UpdateSubscriptions" /\ PreD.SaramaConfig = NoConfig

\* C31: UpdateSubscriptions on a dispatcher that has no sarama.Config returns
\* a nil map, whatever it is asked for, without taking consumerUpdateLock,
\* without a call to the factory, and leaves the subscribers map,
\* d.SubscriberSpecs and everything else as they were.
C31_NoConfigReturnsNil ==
  UpdateWithoutConfig =>
     /\ last.returned
     /\ last.ret = NilMap
     /\ ~last.locked
     /\ last.calls = 0
     /\ World = last.pre
     /\ current = last.di

\* C31 witness: the call asked for subscribers, and the factory would have
\* answered for the first of them
C31_Witness ==
  /\ UpdateWithoutConfig
  /\ Len(last.desired) > 0
  /\ last.outcomes[1] = "ok"

\* ---------------------------------------------------------------- C32
\* the observed call is a ConfigChanged with a ConfigMap that does not merge
ConfigChangedUnmergeable == last.op = "ConfigChanged" /\ MergeSaramaSettings(last.configMap).err

\* C32: ConfigChanged with a ConfigMap that MergeSaramaSettings rejects
\* returns nil and leaves the dispatcher as it was: no Shutdown, no call to
\* the factory, no new dispatcher, the same subscribers, SubscriberSpecs and
\* sarama.Config, and the caller stays with the dispatcher it had.
C32_MergeErrorNoOp ==
  ConfigChangedUnmergeable =>
     /\ last.returned
     /\ last.ret = NilRef
     /\ ~last.rebuilt
     /\ World = last.pre
     /\ current = last.di

\* C32 witness: the call was made on a dispatcher with a configuration and a
\* registered subscriber
C32_Witness ==
  /\ ConfigChangedUnmergeable
  /\ PreD.SaramaConfig # NoConfig
  /\ PreRegistered # {}

\* ---------------------------------------------------------------- C33
\* C33: after an UpdateSubscriptions, every subscriber that is registered and
\* was listed by the call has an open StopChan.
C33_DesiredConsuming ==
  ObservedUpdate =>
     \A u \in PostRegistered \cap DesiredUIDs(last.desired) :
        wrappers[PostD.subscribers[u]].StopChan = "open"

\* ---------------------------------------------------------------- C34
\* the consumer groups held by a subscriber of the dispatcher in use
HeldByCurrent ==
  {wrappers[disp[current].subscribers[u]].ConsumerGroup : u \in Registered(current)}

\* C34: while the process runs, every consumer group the factory has returned
\* is held by a subscriber of the dispatcher in use or has been closed with
\* success.
C34_NoOrphanedGroups ==
  crashed = "no" =>
     \A cg \in DOMAIN groups : groups[cg].closed \/ cg \in HeldByCurrent

\* ---------------------------------------------------------------- C35
\* C35: after an UpdateSubscriptions, no UID is both the UID of a key of the
\* returned failure map and registered.
C35_FailedNotRegistered ==
  (ObservedUpdate /\ ~last.ret.isNil) =>
     \A sp \in DOMAIN last.ret.m : sp.UID \notin PostRegistered

\* ---------------------------------------------------------------- C36
\* the subscribers the observed Shutdown took out of the map
ShutdownRemoved == PreRegistered \ PostRegistered

\* C36: Shutdown leaves d.SubscriberSpecs and the sarama.Config of its
\* dispatcher as they were, adds no wrapper, consumer group or dispatcher and
\* leaves every other dispatcher alone: the list goes on naming the
\* subscribers that Shutdown closed.
C36_ShutdownKeepsSpecs ==
  last.op = "Shutdown" =>
     /\ PostD.SubscriberSpecs = PreD.SubscriberSpecs
     /\ PostD.SaramaConfig = PreD.SaramaConfig
     /\ Len(wrappers) = Len(last.pre.wrappers)
     /\ Len(groups) = Len(last.pre.groups)
     /\ Len(disp) = Len(last.pre.disp)
     /\ \A di \in DOMAIN disp \ {last.di} : disp[di] = last.pre.disp[di]
     /\ \A ref \in DOMAIN wrappers :
          /\ wrappers[ref].SubscriberSpec = last.pre.wrappers[ref].SubscriberSpec
          /\ wrappers[ref].GroupId = last.pre.wrappers[ref].GroupId
          /\ wrappers[ref].ConsumerGroup = last.pre.wrappers[ref].ConsumerGroup

\* C36 witness: a Shutdown that returned, removed a subscriber and left its
\* specification in d.SubscriberSpecs
C36_Witness ==
  /\ ObservedShutdown
  /\ \E u \in ShutdownRemoved :
       \E i \in DOMAIN PostD.SubscriberSpecs : PostD.SubscriberSpecs[i].UID = u

====
